---- MODULE Spec2Model ----
(***************************************************************************)
(* Agent orchestration subsystem of nanoclaw.                              *)
(*                                                                         *)
(*  Part I   the container launcher: one invocation of                     *)
(*           spawnContainerAgent (src/src/container-utils.ts), of          *)
(*           ClaudeProvider.runAgent (same handlers, inlined) or of the    *)
(*           exec-based GeminiProvider.runAgent, and the child-process     *)
(*           events that drive it.                                         *)
(*  Part II  the task table, the IPC watcher's file handlers and the       *)
(*           scheduler's run persistence.  TaskSpec runs the watcher and   *)
(*           the scheduler together, IpcTaskSpec the watcher alone with    *)
(*           files it throws on, SchedulerSpec the scheduler alone over    *)
(*           a table that already holds rows.                              *)
(*  Part III the messages area of the IPC watcher, PlatformManager and     *)
(*           the platforms' send methods.                                  *)
(*  Part IV  AgentService.runAgent's use of the returned response: the     *)
(*           stored session id.                                            *)
(*  Part V   ProviderManager: the provider store in memory and on disk,    *)
(*           and ProviderFactory's lookup of the resolved name.            *)
(*  Part VI  the IPC watcher's poll loop (startIpcWatcher): its cycles,    *)
(*           the errors a cycle absorbs and the timer that starts the      *)
(*           next one (WatcherSpec).                                       *)
(*  Part VII the connectors' inbound handlers, the command handler and     *)
(*           the session id an invocation is given (InboundSpec,           *)
(*           SessionSpec).                                                 *)
(*  RegistrySpec runs the tasks area over the files that register groups.  *)
(*                                                                         *)
(* Text is modelled as a sequence of tokens.  A token is one of the two    *)
(* sentinel markers, a newline, a JSON document (P), other ASCII text (x)  *)
(* or a non-ASCII character (w, two bytes in a Buffer).                    *)
(* What document P stands for is the invocation's payload kind.            *)
(***************************************************************************)
EXTENDS Integers, Sequences, FiniteSets, TLC

VARIABLES
    \* ---- Part I: one launcher invocation
    provider,         \* which runAgent body serves the invocation
    payload,          \* the JSON document the container prints as token P
    groupTimeout,     \* group.containerConfig?.timeout (0: not set)
    stdout,           \* let stdout = ''
    stderr,           \* let stderr = ''
    stdoutTruncated,  \* let stdoutTruncated = false
    stderrTruncated,  \* let stderrTruncated = false
    nData,            \* stdout 'data' events delivered so far
    nErrData,         \* stderr 'data' events delivered so far
    timer,            \* the setTimeout handle: "armed", "fired", "cleared"
    killed,           \* container.kill(...) has been called
    errored,          \* the 'error' event has been delivered
    closed,           \* the 'close' event has been delivered
    exitCode,         \* the code the 'close' event carried ("none" before it)
    response,         \* what the returned promise resolved to (NoResponse: pending)
    \* ---- Part II: the task store, the scheduler and the IPC watcher's tasks area
    tasks,            \* table scheduled_tasks: id -> row (NoTask: no such row)
    nextId,           \* the next fresh task id
    runLogs,          \* table task_run_logs, in insertion order
    now,              \* the clock
    registeredGroups, \* state.ts registeredGroups: jid -> folder
    schedQueue,       \* rows of the current scheduler tick still to run
    inflight,         \* the row whose agent run is being awaited (NoRun: none)
    oncePersisted     \* history: id -> status the row had when its one-shot run was persisted

launcherVars == <<provider, payload, groupTimeout, stdout, stderr, stdoutTruncated,
                  stderrTruncated, nData, nErrData, timer, killed, errored, closed,
                  exitCode, response>>

taskVars == <<tasks, nextId, runLogs, now, registeredGroups, schedQueue, inflight,
              oncePersisted>>

\* Part III: the messages area of the IPC watcher
VARIABLES
    files,            \* the messages outbox: group and file name -> where the file is, what it says
    errorsDir         \* names present in the errors directory

msgVars == <<files, errorsDir>>

\* Part IV: AgentService and the session store
VARIABLES
    sessions,         \* sessions[group.folder] of the group whose invocation is under study
    delivered         \* AgentService.runAgent has received the launcher's response

serviceVars == <<sessions, delivered>>

\* Part V: the provider store
VARIABLES
    store,            \* ModelProviderManager.store
    disk,             \* the file model_providers.json
    expected          \* history: group -> what the last set/clear since the load asked for

providerVars == <<store, disk, expected>>

\* Part VI: the IPC watcher's poll loop
VARIABLES
    cycles,           \* the calls of processIpcFiles in progress, each at its position
    timers,           \* pending setTimeout(processIpcFiles, IPC_POLL_INTERVAL) timers
    seen              \* the kinds of error that have occurred so far

watcherVars == <<cycles, timers, seen>>

\* Part VII: one group's inbound messages, commands and stored session
VARIABLES
    platform,         \* the connector the group's messages arrive on
    inbound,          \* each inbound message's position, in arrival order
    startOrder,       \* the messages in the order their invocations started
    groupProvider,    \* providerManager.getProviderForGroup(group.folder)
    folderSession,    \* sessions[group.folder]
    lastPassed,       \* provider and request.sessionId of the latest invocation
    clearPending      \* /clear or /reset was received and no run has stored a session since

inboundVars == <<platform, inbound, startOrder, groupProvider, folderSession, lastPassed,
                 clearPending>>

vars == <<launcherVars, taskVars, msgVars, serviceVars, providerVars, watcherVars,
          inboundVars>>

----------------------------------------------------------------------------
(* Bounds of the model *)

\* stdout 'data' events per invocation
MaxChunks == 2
\* stderr 'data' events per invocation
MaxErrChunks == 1
\* the output cap, in tokens (the program's value is in bytes; scaled down)
CONTAINER_MAX_OUTPUT_SIZE == 7
\* rows the task table may hold over a behaviour
MaxTasks == 1
\* rows the run log may hold
MaxLogs == 2
\* rows the task table holds when the scheduler is studied on its own
MaxRows == 2
\* the clock runs from 0 to MaxTime
MaxTime == 1
\* calls of processIpcFiles the model lets be in progress at once
MaxCycles == 2
\* pending poll timers the model lets accumulate
MaxTimers == 2
\* inbound messages of the group over a behaviour
MaxMessages == 3
\* session ids a provider hands out over a behaviour
MaxSessions == 2

\* default timeout in ms
CONTAINER_TIMEOUT == 300000

----------------------------------------------------------------------------
(* Values *)

Undefined == "undefined"
Null == "null"
NoResponse == [type |-> "pending"]

OUTPUT_START_MARKER == "S"
OUTPUT_END_MARKER == "E"
Newline == "nl"
Doc == "P"
Junk == "x"

Tokens == {OUTPUT_START_MARKER, OUTPUT_END_MARKER, Newline, Doc, Junk}

Providers == {"launcher", "claude", "gemini_exec"}

\* per-group timeout overrides that occur (0: none configured)
GroupTimeouts == {0, 100}

ExitCodes == {"0", "1", "null"}

PayloadKinds == {"ok", "er", "ers", "num", "nul", "gem"}

NoError == [kind |-> "none", n |-> 0, code |-> "none", tail |-> <<>>]

\* The JavaScript value JSON.parse yields for document P of each kind.
ParsedValue(kind) ==
    CASE kind = "ok"  -> [type |-> "object", status |-> "success", result |-> "ok",
                          newSessionId |-> "s1", error |-> NoError,
                          output |-> Undefined, sessionId |-> Undefined]
      [] kind = "er"  -> [type |-> "object", status |-> "error", result |-> Null,
                          newSessionId |-> Undefined,
                          error |-> [kind |-> "agent", n |-> 0, code |-> "none", tail |-> <<>>],
                          output |-> Undefined, sessionId |-> Undefined]
      [] kind = "ers" -> [type |-> "object", status |-> "error", result |-> Null,
                          newSessionId |-> "s9",
                          error |-> [kind |-> "agent", n |-> 0, code |-> "none", tail |-> <<>>],
                          output |-> Undefined, sessionId |-> Undefined]
      [] kind = "gem" -> [type |-> "object", status |-> Undefined, result |-> Undefined,
                          newSessionId |-> Undefined, error |-> NoError,
                          output |-> "hi", sessionId |-> "s2"]
      [] kind = "num" -> [type |-> "number", status |-> Undefined, result |-> Undefined,
                          newSessionId |-> Undefined, error |-> NoError,
                          output |-> Undefined, sessionId |-> Undefined]
      [] OTHER        -> [type |-> "null", status |-> Undefined, result |-> Undefined,
                          newSessionId |-> Undefined, error |-> NoError,
                          output |-> Undefined, sessionId |-> Undefined]

\* An AgentResponse as the callers see it.
Response(status, result, newSessionId, error) ==
    [type |-> "object", status |-> status, result |-> result,
     newSessionId |-> newSessionId, error |-> error]

ErrorResponse(kind, n, code, tail) ==
    Response("error", Null, Undefined, [kind |-> kind, n |-> n, code |-> code, tail |-> tail])

----------------------------------------------------------------------------
(* String operations, on token sequences, with JavaScript's 0-based indices *)

IndexOf(s, tok) ==
    IF \E i \in 1..Len(s) : s[i] = tok
    THEN (CHOOSE i \in 1..Len(s) : s[i] = tok /\ \A j \in 1..(i - 1) : s[j] # tok) - 1
    ELSE -1

Min(a, b) == IF a < b THEN a ELSE b
Max(a, b) == IF a > b THEN a ELSE b

\* s.slice(from, to), both non-negative
Slice(s, from, to) == SubSeq(s, Min(from, Len(s)) + 1, Min(to, Len(s)))

\* s.slice(-n)
Tail_(s, n) == SubSeq(s, Max(Len(s) - n, 0) + 1, Len(s))

RECURSIVE TrimStart(_)
TrimStart(s) == IF s # <<>> /\ Head(s) = Newline THEN TrimStart(Tail(s)) ELSE s

RECURSIVE TrimEnd(_)
TrimEnd(s) ==
    IF s # <<>> /\ s[Len(s)] = Newline THEN TrimEnd(SubSeq(s, 1, Len(s) - 1)) ELSE s

Trim(s) == TrimEnd(TrimStart(s))

\* the last element of s.split('\n')
LastLine(s) ==
    LET nls == {i \in 1..Len(s) : s[i] = Newline}
        lastNl == IF nls = {} THEN 0 ELSE CHOOSE i \in nls : \A j \in nls : j <= i
    IN  SubSeq(s, lastNl + 1, Len(s))

\* JSON.parse(text): whitespace around one document is accepted, anything else throws.
JsonParse(text, kind) ==
    IF SelectSeq(text, LAMBDA t : t # Newline) = <<Doc>>
    THEN [threw |-> FALSE, value |-> ParsedValue(kind)]
    ELSE [threw |-> TRUE, value |-> ParsedValue("nul")]

----------------------------------------------------------------------------
(* What the container writes *)

\* agent-runner writeOutput: three console.log lines
WriteOutput == <<OUTPUT_START_MARKER, Newline, Doc, Newline, OUTPUT_END_MARKER, Newline>>

\* agent-runner-gemini writeOutput: one console.log line
GeminiWriteOutput == <<Doc, Newline>>

\* the two bytes of the UTF-8 encoding of one non-ASCII character, that
\* character, and U+FFFD
WideLead == "w1"
WideTrail == "w2"
Wide == "w"
Replacement == "r"

\* a Buffer holding one non-ASCII character
WideChar == <<WideLead, WideTrail>>

\* a line of other output
LogLine == <<Junk, Newline>>

\* the chunks (Buffers, as byte sequences) a 'data' event may carry; every other
\* token stands for ASCII text
Chunks == {<<t>> : t \in Tokens} \cup {WriteOutput, GeminiWriteOutput, WideChar, LogLine}

\* data.toString(): UTF-8 decoding of one Buffer; a byte that is not part of a
\* complete sequence within the Buffer becomes U+FFFD
RECURSIVE DataToString(_)
DataToString(data) ==
    IF data = <<>> THEN <<>>
    ELSE IF Len(data) >= 2 /\ data[1] = WideLead /\ data[2] = WideTrail
    THEN <<Wide>> \o DataToString(SubSeq(data, 3, Len(data)))
    ELSE IF data[1] \in {WideLead, WideTrail}
    THEN <<Replacement>> \o DataToString(Tail(data))
    ELSE <<data[1]>> \o DataToString(Tail(data))

\* Buffer.byteLength(text): the number of bytes of a string's UTF-8 encoding
RECURSIVE ByteLength(_)
ByteLength(text) ==
    IF text = <<>> THEN 0
    ELSE (IF text[1] = Wide THEN 2 ELSE IF text[1] = Replacement THEN 3 ELSE 1)
         + ByteLength(Tail(text))

ErrChunks == {<<Junk>>, <<Junk, Newline>>}

----------------------------------------------------------------------------
(* Part I: the launcher *)

\* new Promise((resolve) => ...): the first resolve settles it, later ones are ignored
ResolveLastWins(current, value) == value

Resolve(current, value) == IF current = NoResponse THEN value ELSE current

\* the 'data' handlers: append up to the cap, then set the truncation flag
AppendCapped(buf, truncated, chunk) ==
    IF truncated THEN [buf |-> buf, truncated |-> TRUE]
    ELSE LET remaining == CONTAINER_MAX_OUTPUT_SIZE - Len(buf)
         IN  IF Len(chunk) > remaining
             THEN [buf |-> buf \o Slice(chunk, 0, remaining), truncated |-> TRUE]
             ELSE [buf |-> buf \o chunk, truncated |-> FALSE]

\* options.input.containerConfig?.timeout || CONTAINER_TIMEOUT
TimeoutMs == IF groupTimeout # 0 THEN groupTimeout ELSE CONTAINER_TIMEOUT

\* the N of the timeout error text
TimeoutTextMs == IF provider = "claude" THEN CONTAINER_TIMEOUT ELSE TimeoutMs

\* the value handed to resolve(output): the parsed document as it is
AsReturned(v) ==
    [type |-> v.type, status |-> v.status, result |-> v.result,
     newSessionId |-> v.newSessionId, error |-> v.error]

\* the text handed to JSON.parse
JsonLine(out) ==
    LET startIdx == IndexOf(out, OUTPUT_START_MARKER)
        endIdx == IndexOf(out, OUTPUT_END_MARKER)
    IN  IF startIdx # -1 /\ endIdx # -1 /\ endIdx > startIdx
        THEN Trim(Slice(out, startIdx + Len(<<OUTPUT_START_MARKER>>), endIdx))
        ELSE LastLine(Trim(out))

\* try { ... JSON.parse(jsonLine) ... output.status ... resolve(output) } catch { resolve(error) }
ExtractOutput(out, kind) ==
    LET parsed == JsonParse(JsonLine(out), kind)
    IN  IF parsed.threw THEN ErrorResponse("Failed to parse container output", 0, "none", <<>>)
        ELSE IF parsed.value.type = "null"   \* reading output.status of null throws
        THEN ErrorResponse("Failed to parse container output", 0, "none", <<>>)
        ELSE AsReturned(parsed.value)

\* the 'close' handler's result
CloseResult(code, out, err, kind) ==
    IF code # "0"
    THEN ErrorResponse("Container exited with code", 0, code, Tail_(err, 1000))
    ELSE ExtractOutput(out, kind)

\* GeminiProvider.runAgent around exec: the callback, the parse, the catch
ExecResult(error, out, kind) ==
    IF error /\ out = <<>>
    THEN ErrorResponse("Container execution failed", 0, "none", <<>>)
    ELSE LET parsed == JsonParse(out, kind)
         IN  IF parsed.threw \/ parsed.value.type = "null"
             THEN ErrorResponse("Invalid JSON response from agent", 0, "none", <<>>)
             ELSE Response("success", parsed.value.output, parsed.value.sessionId, NoError)

LauncherInit ==
    /\ provider \in Providers
    /\ payload \in PayloadKinds
    /\ groupTimeout \in GroupTimeouts
    /\ stdout = <<>>
    /\ stderr = <<>>
    /\ stdoutTruncated = FALSE
    /\ stderrTruncated = FALSE
    /\ nData = 0
    /\ nErrData = 0
    /\ timer = "armed"
    /\ killed = FALSE
    /\ errored = FALSE
    /\ closed = FALSE
    /\ exitCode = "none"
    /\ response = NoResponse

\* container.stdout.on('data', ...); for exec, the child's stdout against maxBuffer
StdoutData(chunk) ==
    /\ ~closed /\ ~errored
    /\ nData < MaxChunks
    /\ nData' = nData + 1
    /\ LET r == AppendCapped(stdout, stdoutTruncated, DataToString(chunk))
       IN  /\ stdout' = r.buf
           /\ stdoutTruncated' = r.truncated
           /\ killed' = IF provider = "gemini_exec" /\ r.truncated THEN TRUE ELSE killed
    /\ UNCHANGED <<provider, payload, groupTimeout, stderr, stderrTruncated, nErrData,
                   timer, errored, closed, exitCode, response>>
    /\ UNCHANGED <<taskVars, msgVars, serviceVars, providerVars, watcherVars, inboundVars>>

\* container.stderr.on('data', ...)
StderrData(chunk) ==
    /\ ~closed /\ ~errored
    /\ nErrData < MaxErrChunks
    /\ nErrData' = nErrData + 1
    /\ LET r == AppendCapped(stderr, stderrTruncated, DataToString(chunk))
       IN  /\ stderr' = r.buf
           /\ stderrTruncated' = r.truncated
           /\ killed' = IF provider = "gemini_exec" /\ r.truncated THEN TRUE ELSE killed
    /\ UNCHANGED <<provider, payload, groupTimeout, stdout, stdoutTruncated, nData,
                   timer, errored, closed, exitCode, response>>
    /\ UNCHANGED <<taskVars, msgVars, serviceVars, providerVars, watcherVars, inboundVars>>

\* the setTimeout callback; for exec, the timeout option
TimerFire ==
    /\ timer = "armed"
    /\ timer' = "fired"
    /\ killed' = TRUE
    /\ response' = IF provider = "gemini_exec" THEN response
                   ELSE Resolve(response,
                                ErrorResponse("timed out after ms", TimeoutTextMs, "none", <<>>))
    /\ UNCHANGED <<provider, payload, groupTimeout, stdout, stderr, stdoutTruncated,
                   stderrTruncated, nData, nErrData, errored, closed, exitCode>>
    /\ UNCHANGED <<taskVars, msgVars, serviceVars, providerVars, watcherVars, inboundVars>>

\* container.on('error', ...): the runtime could not be started
SpawnError ==
    /\ ~errored /\ ~closed
    /\ nData = 0 /\ nErrData = 0
    /\ errored' = TRUE
    /\ timer' = IF timer = "armed" THEN "cleared" ELSE timer
    /\ response' = IF provider = "gemini_exec"
                   THEN Resolve(response, ExecResult(TRUE, stdout, payload))
                   ELSE Resolve(response,
                                ErrorResponse("Container spawn error", 0, "none", <<>>))
    /\ UNCHANGED <<provider, payload, groupTimeout, stdout, stderr, stdoutTruncated,
                   stderrTruncated, nData, nErrData, killed, closed, exitCode>>
    /\ UNCHANGED <<taskVars, msgVars, serviceVars, providerVars, watcherVars, inboundVars>>

\* container.on('close', ...); for exec, the exit handler calling the callback
Close(code) ==
    /\ ~closed
    /\ errored => code # "0"
    /\ closed' = TRUE
    /\ exitCode' = code
    /\ timer' = IF timer = "armed" THEN "cleared" ELSE timer
    /\ response' =
         IF provider = "gemini_exec"
         THEN Resolve(response,
                      ExecResult(code # "0" \/ killed,
                                 stdout, payload))
         ELSE Resolve(response, CloseResult(code, stdout, stderr, payload))
    /\ UNCHANGED <<provider, payload, groupTimeout, stdout, stderr, stdoutTruncated,
                   stderrTruncated, nData, nErrData, killed, errored>>
    /\ UNCHANGED <<taskVars, msgVars, serviceVars, providerVars, watcherVars, inboundVars>>

\* if (output.newSessionId): a non-empty string
Truthy(v) == v # Undefined /\ v # Null /\ v # ""

\* updateSession(group.folder, sessionId)
UpdateSession(current, sessionId) == sessionId

\* the session store after AgentService.runAgent has received output:
\* if (output.newSessionId) updateSession(...), before output.status is looked at
SessionAfterRun(current, output) ==
    IF Truthy(output.newSessionId)
    THEN UpdateSession(current, output.newSessionId)
    ELSE current

ServiceInit ==
    /\ sessions = "s0"
    /\ delivered = FALSE

\* AgentService.runAgent after `await runContainerAgent(...)`
RunAgentReturn ==
    /\ response # NoResponse
    /\ ~delivered
    /\ delivered' = TRUE
    /\ sessions' = SessionAfterRun(sessions, response)
    /\ UNCHANGED launcherVars
    /\ UNCHANGED <<taskVars, msgVars, providerVars, watcherVars, inboundVars>>

LauncherNext ==
    \/ RunAgentReturn
    \/ \E chunk \in Chunks : StdoutData(chunk)
    \/ \E chunk \in ErrChunks : StderrData(chunk)
    \/ TimerFire
    \/ SpawnError
    \/ \E code \in ExitCodes : Close(code)

----------------------------------------------------------------------------
(* Claims about the launcher *)

IsAgentResponse(r) == r.type = "object" /\ r.status \in {"success", "error"}

Returned == response # NoResponse

\* the text the launcher hands to JSON.parse is one document that is a response
WellFormedPayload(out, kind) ==
    /\ ~JsonParse(JsonLine(out), kind).threw
    /\ IsAgentResponse(ParsedValue(kind))

\* C1: on the launcher's own handlers, whatever the order of the child's events,
\* the call has returned once the child closed, failed to start or timed out; what
\* it returned is an AgentResponse; and after a spawn failure, a timeout, a
\* non-zero exit or malformed output that response has status error.
C1_AlwaysReturnsAgentResponse ==
    provider \in {"launcher", "claude"} =>
        /\ (closed \/ errored \/ timer = "fired") => Returned
        /\ Returned => IsAgentResponse(response)
        /\ (Returned /\ (errored \/ timer = "fired")) => response.status = "error"
        /\ (closed /\ (exitCode # "0" \/ ~WellFormedPayload(stdout, payload)))
              => response.status = "error"

\* C2: on the launcher's handlers, once the timer has fired the child has been
\* killed and the response is the timeout error carrying the timeout in ms, whatever
\* is buffered and whatever close event comes after.
C2_TimeoutResolvesError ==
    (provider \in {"launcher", "claude"} /\ timer = "fired") =>
        /\ killed
        /\ response = ErrorResponse("timed out after ms", TimeoutTextMs, "none", <<>>)

\* C2 witness: the timer fired with a complete success payload buffered, and the
\* child's close (exit code 0) was delivered afterwards.
C2_Witness ==
    /\ provider = "launcher" /\ timer = "fired" /\ closed /\ exitCode = "0"
    /\ payload = "ok" /\ stdout = WriteOutput
    /\ groupTimeout = 100
    /\ response.error.n = 100

\* C3: on every provider path, a close with a non-zero exit code leaves a
\* response with status error.
C3_NonZeroExitIsError ==
    (closed /\ exitCode # "0") => (Returned /\ response.status = "error")

\* stdout is the sentinel-bracketed document: start marker, document, end marker,
\* with only line breaks between them
WellFormedBracketed(out) ==
    LET startIdx == IndexOf(out, OUTPUT_START_MARKER)
        endIdx == IndexOf(out, OUTPUT_END_MARKER)
    IN  /\ startIdx # -1 /\ endIdx > startIdx
        /\ SelectSeq(Slice(out, startIdx + 1, endIdx), LAMBDA t : t # Newline) = <<Doc>>

\* C4: on every provider path, exit code 0 before the timeout with stdout within
\* the cap and a well-formed sentinel-bracketed response returns that response's
\* fields.
C4_BracketedResponseIsReturned ==
    (/\ closed /\ exitCode = "0" /\ timer # "fired" /\ ~errored
     /\ ~stdoutTruncated
     /\ payload \in {"ok", "er"}
     /\ WellFormedBracketed(stdout))
        => response = AsReturned(ParsedValue(payload))

\* C11: the stored session id changes only when the invocation returned status
\* success; a run that returned status error leaves it as it was.
C11_SessionChangesOnlyOnSuccess ==
    [][sessions' # sessions => (response.type = "object" /\ response.status = "success")]_vars

\* some start sentinel comes before some end sentinel
StartBeforeEnd(out) ==
    \E i, j \in 1..Len(out) :
        i < j /\ out[i] = OUTPUT_START_MARKER /\ out[j] = OUTPUT_END_MARKER

\* text is what stands between a start sentinel and a later end sentinel
IsBetweenSentinels(out, text) ==
    \E i, j \in 1..Len(out) :
        /\ i < j /\ out[i] = OUTPUT_START_MARKER /\ out[j] = OUTPUT_END_MARKER
        /\ text = Trim(SubSeq(out, i + 1, j - 1))

\* C16: on exit code 0, when stdout holds a start sentinel before an end sentinel,
\* the text handed to the JSON parser is the text between the sentinels, whatever
\* else (further sentinels included) stdout holds; the last line is used only when
\* there is no such pair.
C16_ParsesTextBetweenSentinels ==
    (closed /\ exitCode = "0" /\ provider # "gemini_exec" /\ StartBeforeEnd(stdout))
        => IsBetweenSentinels(stdout, JsonLine(stdout))

\* the last line of out that is not blank
LastNonEmptyLine(out) ==
    LET filled == {i \in 1..Len(out) : out[i] # Newline}
        last == IF filled = {} THEN 0 ELSE CHOOSE i \in filled : \A j \in filled : j <= i
        breaks == {i \in 1..last : out[i] = Newline}
        from == IF breaks = {} THEN 0 ELSE CHOOSE i \in breaks : \A j \in breaks : j <= i
    IN  SubSeq(out, from + 1, last)

NoSentinels(out) ==
    \A i \in 1..Len(out) : out[i] \notin {OUTPUT_START_MARKER, OUTPUT_END_MARKER}

\* C17: on exit code 0 before the timeout, with stdout within the cap and without
\* sentinels, a well-formed response on the last non-empty line of stdout is what
\* the call returns, whatever lines precede it and whatever blank lines follow it.
C17_LastLineFallbackReturnsResponse ==
    (/\ closed /\ exitCode = "0" /\ timer # "fired" /\ ~errored
     /\ ~stdoutTruncated
     /\ payload \in {"ok", "er"}
     /\ NoSentinels(stdout)
     /\ LastNonEmptyLine(stdout) = <<Doc>>)
        => response = AsReturned(ParsedValue(payload))

\* C18: on the launcher's handlers the accumulated stdout never holds more than
\* the cap's worth of bytes, holds exactly that many once output was cut, and a
\* cut is not an error: after exit code 0 the call has returned, and a well-formed
\* bracketed response that survived the cut is returned as it is.
C18_StdoutTruncatedToByteCap ==
    provider \in {"launcher", "claude"} =>
        /\ ByteLength(stdout) <= CONTAINER_MAX_OUTPUT_SIZE
        /\ stdoutTruncated => ByteLength(stdout) = CONTAINER_MAX_OUTPUT_SIZE
        /\ (closed /\ exitCode = "0" /\ stdoutTruncated) => Returned
        /\ (/\ closed /\ exitCode = "0" /\ stdoutTruncated /\ timer # "fired" /\ ~errored
            /\ payload \in {"ok", "er"} /\ WellFormedBracketed(stdout))
              => response = AsReturned(ParsedValue(payload))

\* C19: on the launcher's handlers, after exit code 0 with a payload that is not
\* a well-formed response (not valid JSON, or valid JSON without a status of
\* success or error) the response's status is error and it carries a detail.
C19_MalformedPayloadIsError ==
    (/\ provider \in {"launcher", "claude"}
     /\ closed /\ exitCode = "0" /\ timer # "fired" /\ ~errored
     /\ ~WellFormedPayload(stdout, payload))
        => /\ response.type = "object"
           /\ response.status = "error"
           /\ response.error # NoError

\* the child process has exited (its 'close' event was delivered) or never started
ProcessGone == closed \/ errored

\* C15: when the timeout has fired, the caller receives status error and the
\* child process has exited by the time the caller receives it.
C15_TimeoutReturnsAfterProcessGone ==
    (delivered /\ timer = "fired") => (response.status = "error" /\ ProcessGone)

----------------------------------------------------------------------------
(* Part II: the task store (src/src/db.ts) *)

\* SQL NULL in column next_run
NULL == 0 - 1

MAIN_GROUP_FOLDER == "main"

\* group folders with an IPC directory, and folders a file may name
Sources == {"main", "alpha"}
Folders == {"main", "alpha", "beta"}
Jids == {"jm", "ja", "jb"}

TaskIds == 1..MaxTasks

NoTask == [group_folder |-> "none", schedule_type |-> "none", schedule_value |-> "none",
           status |-> "none", next_run |-> NULL, created_at |-> NULL]

NoRun == [id |-> 0, schedule_type |-> "none"]

Exists(ts, id) == id \in DOMAIN ts /\ ts[id] # NoTask

\* createTask: INSERT INTO scheduled_tasks
CreateTask(ts, id, row) == [ts EXCEPT ![id] = row]

\* getTaskById
GetTaskById(ts, id) == IF id \in DOMAIN ts THEN ts[id] ELSE NoTask

\* getAllTasks: SELECT * FROM scheduled_tasks, mapped by runAgent to the snapshot's rows
GetAllTasks(ts) ==
    {[id |-> id, groupFolder |-> ts[id].group_folder, schedule_type |-> ts[id].schedule_type,
      schedule_value |-> ts[id].schedule_value, status |-> ts[id].status,
      next_run |-> ts[id].next_run] : id \in {i \in DOMAIN ts : Exists(ts, i)}}

WriteTasksSnapshotUnfiltered(groupFolder, isMain, rows) == rows

\* writeTasksSnapshot: isMain ? tasks : tasks.filter(t => t.groupFolder === groupFolder),
\* written to the group's current_tasks.json
WriteTasksSnapshot(groupFolder, isMain, rows) ==
    IF isMain THEN rows ELSE {t \in rows : t.groupFolder = groupFolder}

\* runAgent: isMain = group.folder === MAIN_GROUP_FOLDER; the snapshot of that folder
RunAgentSnapshot(groupFolder, ts) ==
    WriteTasksSnapshot(groupFolder, groupFolder = MAIN_GROUP_FOLDER, GetAllTasks(ts))

\* updateTask(id, { status }): UPDATE ... SET status = ? WHERE id = ?
UpdateTask(ts, id, status) ==
    IF Exists(ts, id) THEN [ts EXCEPT ![id].status = status] ELSE ts

\* deleteTask: the run-log rows first, then the task row
DeleteTaskLogs(logs, id) == SelectSeq(logs, LAMBDA l : l.task_id # id)

DeleteTask(ts, id) == IF id \in DOMAIN ts THEN [ts EXCEPT ![id] = NoTask] ELSE ts

\* getDueTasks: WHERE status = 'active' AND next_run IS NOT NULL AND next_run <= now
IsDueAnyStatus(row, t) == row.next_run # NULL /\ row.next_run <= t

IsDue(row, t) == row.status = "active" /\ row.next_run # NULL /\ row.next_run <= t

DueIds(ts, t) == {id \in DOMAIN ts : Exists(ts, id) /\ IsDue(ts[id], t)}

\* ... ORDER BY next_run (equal next_run: in id order)
RECURSIVE SortById(_, _)
SortById(ts, ids) ==
    IF ids = {} THEN <<>>
    ELSE LET first == CHOOSE i \in ids : \A j \in ids : i <= j
         IN  <<[id |-> first, schedule_type |-> ts[first].schedule_type]>>
             \o SortById(ts, ids \ {first})

RECURSIVE SortByNextRun(_, _)
SortByNextRun(ts, ids) ==
    IF ids = {} THEN <<>>
    ELSE LET first == CHOOSE i \in ids :
                        \A j \in ids : \/ ts[i].next_run < ts[j].next_run
                                       \/ (ts[i].next_run = ts[j].next_run /\ i <= j)
         IN  <<[id |-> first, schedule_type |-> ts[first].schedule_type]>>
             \o SortByNextRun(ts, ids \ {first})

GetDueTasks(ts, t) == SortByNextRun(ts, DueIds(ts, t))

\* updateTaskAfterRun: SET next_run = ?, status = CASE WHEN ? IS NULL THEN 'completed'
\*                     ELSE status END WHERE id = ?
UpdateTaskAfterRunKeepStatus(ts, id, nextRun) ==
    IF Exists(ts, id) THEN [ts EXCEPT ![id].next_run = nextRun] ELSE ts

UpdateTaskAfterRunKeepNextRun(ts, id, nextRun) ==
    IF Exists(ts, id)
    THEN [ts EXCEPT ![id].status = IF nextRun = NULL THEN "completed" ELSE @]
    ELSE ts

\* as UpdateTaskAfterRun, with the status the scheduler fetched written back
UpdateTaskAfterRunStaleStatus(ts, id, nextRun) ==
    IF Exists(ts, id)
    THEN [ts EXCEPT ![id].next_run = nextRun,
                    ![id].status = IF nextRun = NULL THEN "completed" ELSE "active"]
    ELSE ts

UpdateTaskAfterRun(ts, id, nextRun) ==
    IF Exists(ts, id)
    THEN [ts EXCEPT ![id].next_run = nextRun,
                    ![id].status = IF nextRun = NULL THEN "completed" ELSE @]
    ELSE ts

\* as LogTaskRun, with the foreign key not enforced
LogTaskRunUnchecked(logs, ts, log) == Append(logs, log)

\* logTaskRun: INSERT INTO task_run_logs; task_id REFERENCES scheduled_tasks(id)
LogTaskRun(logs, ts, log) == IF Exists(ts, log.task_id) THEN Append(logs, log) ELSE logs

----------------------------------------------------------------------------
(* Part II: the IPC watcher's tasks area (processTaskIpc) *)

\* the largest time value a Date holds (8.64e15 ms), on the model's clock
MaxDate == MaxTime + 2

NaN == [nan |-> TRUE, n |-> 0]
Num(n) == [nan |-> FALSE, n |-> n]

\* parseInt(value, 10): the leading integer, NaN when there is none
ParseInt(v) ==
    CASE v = "1" -> Num(1)
      [] v = "0" -> Num(0)
      [] v = "huge" -> Num(MaxDate + 1)
      [] OTHER -> NaN

\* new Date(value).getTime()
ParseDate(v) ==
    IF v = "T1" THEN Num(1) ELSE NaN

\* CronExpressionParser.parse(value) throws on a malformed expression
CronParses(v) == v = "every"

\* interval.next(): the first fire time after the current time
CronNext(v, t) == t + 1

CronValues == {"every", "bad"}
IntervalValues == {"1", "0", "abc"}
OnceValues == {"T1", "bad"}
OtherValues == {"soon"}

\* new Date(Date.now() + ms).toISOString() throws RangeError beyond the Date range
IntervalThrows(scheduleType, value, t) ==
    /\ scheduleType = "interval"
    /\ ~ParseInt(value).nan
    /\ ParseInt(value).n > 0
    /\ t + ParseInt(value).n > MaxDate

\* the schedule_task case's computation of nextRun; ok = FALSE: the case breaks
\* or throws
NextRunFor(scheduleType, value, t) ==
    CASE scheduleType = "cron" ->
           IF CronParses(value) THEN [ok |-> TRUE, next_run |-> CronNext(value, t)]
           ELSE [ok |-> FALSE, next_run |-> NULL]
      [] scheduleType = "interval" ->
           LET ms == ParseInt(value)
           IN  IF ms.nan \/ ms.n <= 0 \/ IntervalThrows(scheduleType, value, t)
               THEN [ok |-> FALSE, next_run |-> NULL]
               ELSE [ok |-> TRUE, next_run |-> t + ms.n]
      [] scheduleType = "once" ->
           LET scheduled == ParseDate(value)
           IN  IF scheduled.nan THEN [ok |-> FALSE, next_run |-> NULL]
               ELSE [ok |-> TRUE, next_run |-> scheduled.n]
      [] OTHER -> [ok |-> TRUE, next_run |-> NULL]

BlankFile == [type |-> "unknown", groupFolder |-> "none", schedule_type |-> "none",
              schedule_value |-> "none", taskId |-> 0, hasPrompt |-> FALSE,
              jid |-> "none", folder |-> "none"]

\* every recurrence for the registered folders, one valid recurrence for the
\* unregistered folder, and a file without a prompt
ScheduleFiles ==
    {[BlankFile EXCEPT !.type = "schedule_task", !.groupFolder = g,
                       !.schedule_type = st[1], !.schedule_value = st[2],
                       !.hasPrompt = TRUE] :
        g \in {"main", "alpha"},
        st \in ({"cron"} \X CronValues) \cup ({"interval"} \X IntervalValues)
               \cup ({"once"} \X OnceValues) \cup ({"weekly"} \X OtherValues)}
    \cup {[BlankFile EXCEPT !.type = "schedule_task", !.groupFolder = "beta",
                            !.schedule_type = "interval", !.schedule_value = "1",
                            !.hasPrompt = TRUE],
          [BlankFile EXCEPT !.type = "schedule_task", !.groupFolder = "alpha",
                            !.schedule_type = "interval", !.schedule_value = "1"]}

ControlFiles ==
    {[BlankFile EXCEPT !.type = t, !.taskId = id] :
        t \in {"pause_task", "resume_task", "cancel_task"}, id \in TaskIds}

OtherFiles ==
    {[BlankFile EXCEPT !.type = "register_group", !.jid = "ja", !.folder = "alpha"],
     [BlankFile EXCEPT !.type = "refresh_groups"],
     [BlankFile EXCEPT !.type = "unknown"]}

TaskFiles == ScheduleFiles \cup ControlFiles \cup OtherFiles

\* register_group files that name a jid not yet registered, one without a folder
RegisterFiles ==
    {[BlankFile EXCEPT !.type = "register_group", !.jid = "jb", !.folder = "beta"],
     [BlankFile EXCEPT !.type = "register_group", !.jid = "jb"]}

\* register_group files that name a folder or a jid the registry already holds
ReRegisterFiles ==
    {[BlankFile EXCEPT !.type = "register_group", !.jid = "jb", !.folder = "alpha"],
     [BlankFile EXCEPT !.type = "register_group", !.jid = "ja", !.folder = "beta"]}

\* files the handler throws on: text that is not JSON, the document null, and
\* an interval whose end lies beyond the Date range
BrokenFiles ==
    {[BlankFile EXCEPT !.type = "malformed"], [BlankFile EXCEPT !.type = "null"]}
    \cup {[BlankFile EXCEPT !.type = "schedule_task", !.groupFolder = g,
                            !.schedule_type = "interval", !.schedule_value = "huge",
                            !.hasPrompt = TRUE] : g \in {"main", "alpha"}}

\* every file the tasks area is given
IpcTaskFiles == TaskFiles \cup RegisterFiles \cup BrokenFiles

\* JSON.parse(fs.readFileSync(filePath, 'utf-8')) throws
ParseThrows(data) == data.type = "malformed"

\* the name every task file has in the model
TaskFileName == "t.json"

\* path.join(errorDir, `${sourceGroup}-${file}`)
QuarantineName(sourceGroup, file) == sourceGroup \o "-" \o file

\* if (!isMain && targetGroup !== sourceGroup) break
ScheduleAuthorized(isMain, targetGroup, sourceGroup) ==
    ~(~isMain /\ targetGroup # sourceGroup)

\* if (task && (isMain || task.group_folder === sourceGroup))
ControlAuthorizedAlways(isMain, task, sourceGroup) == task # NoTask

ControlAuthorized(isMain, task, sourceGroup) ==
    task # NoTask /\ (isMain \/ task.group_folder = sourceGroup)

\* Object.entries(registeredGroups).find(([, group]) => group.folder === targetGroup)
TargetRegistered(rg, targetGroup) == \E j \in DOMAIN rg : rg[j] = targetGroup

\* the schedule_task case reaches the computation of nextRun
ReachesSchedule(data, src, rg) ==
    /\ data.type = "schedule_task"
    /\ data.hasPrompt
    /\ ScheduleAuthorized(src = MAIN_GROUP_FOLDER, data.groupFolder, src)
    /\ TargetRegistered(rg, data.groupFolder)

\* the schedule_task case reaches createTask
Creates(data, src, rg, t) ==
    /\ ReachesSchedule(data, src, rg)
    /\ NextRunFor(data.schedule_type, data.schedule_value, t).ok

\* as ApplyThrows, with the cron parser's exception not caught
ApplyThrowsCronUncaught(data, src, rg, t) ==
    \/ data.type = "null"
    \/ /\ ReachesSchedule(data, src, rg)
       /\ IntervalThrows(data.schedule_type, data.schedule_value, t)
    \/ /\ ReachesSchedule(data, src, rg)
       /\ data.schedule_type = "cron"
       /\ ~CronParses(data.schedule_value)

\* processTaskIpc throws: switch (data.type) on null is a TypeError, and
\* toISOString() on an out-of-range Date is a RangeError
ApplyThrows(data, src, rg, t) ==
    \/ data.type = "null"
    \/ /\ ReachesSchedule(data, src, rg)
       /\ IntervalThrows(data.schedule_type, data.schedule_value, t)

\* unlinkSync at the end of the try block, renameSync in the catch block
TaskFileDisposal(data, src, rg, t) ==
    IF ParseThrows(data) \/ ApplyThrows(data, src, rg, t) THEN "errors" ELSE "gone"

NewRow(data, t, createdAt) ==
    [group_folder |-> data.groupFolder, schedule_type |-> data.schedule_type,
     schedule_value |-> data.schedule_value, status |-> "active",
     next_run |-> NextRunFor(data.schedule_type, data.schedule_value, t).next_run,
     created_at |-> createdAt]

\* the claim's own reading of "targets another group": the file names another
\* group's folder, or a task another group owns
CrossGroup(src, data, ts) ==
    \/ data.type = "schedule_task" /\ data.groupFolder # src
    \/ /\ data.type \in {"pause_task", "resume_task", "cancel_task"}
       /\ Exists(ts, data.taskId)
       /\ ts[data.taskId].group_folder # src

\* processTaskIpc's effect on the task table
TasksAfterFile(src, data, ts, rg, t, createdAt, id) ==
    LET isMain == src = MAIN_GROUP_FOLDER
        allowed == ControlAuthorized(isMain, GetTaskById(ts, data.taskId), src)
    IN  CASE Creates(data, src, rg, t) -> CreateTask(ts, id, NewRow(data, t, createdAt))
          [] data.type = "pause_task" /\ allowed -> UpdateTask(ts, data.taskId, "paused")
          [] data.type = "resume_task" /\ allowed -> UpdateTask(ts, data.taskId, "active")
          [] data.type = "cancel_task" /\ allowed -> DeleteTask(ts, data.taskId)
          [] OTHER -> ts

\* processTaskIpc's effect on the run log (deleteTask removes the task's rows)
LogsAfterFile(src, data, ts, logs) ==
    IF /\ data.type = "cancel_task"
       /\ ControlAuthorized(src = MAIN_GROUP_FOLDER, GetTaskById(ts, data.taskId), src)
    THEN DeleteTaskLogs(logs, data.taskId) ELSE logs

\* as GroupsAfterFile, without the check of the sender
GroupsAfterFileAnySource(src, data, rg) ==
    IF data.type = "register_group" /\ data.jid # "none" /\ data.folder # "none"
    THEN [rg EXCEPT ![data.jid] = data.folder]
    ELSE rg

\* processTaskIpc's effect on the registry: registerGroup sets registeredGroups[jid]
GroupsAfterFile(src, data, rg) ==
    IF /\ data.type = "register_group"
       /\ src = MAIN_GROUP_FOLDER
       /\ data.jid # "none" /\ data.folder # "none"
    THEN [rg EXCEPT ![data.jid] = data.folder]
    ELSE rg

\* the clock at a later read within one handler: the same instant or the next
ClockAfter(t) == {t1 \in {t, t + 1} : t1 <= MaxTime}

\* one file of <ipc>/<src>/tasks: JSON.parse, processTaskIpc, unlink.  The case
\* schedule_task reads the clock when it computes nextRun and again when it
\* builds the row (created_at); the unit of time is the period of the cron field.
ProcessTaskFile(src, data) ==
    LET creates == Creates(data, src, registeredGroups, now)
    IN  /\ creates => nextId <= MaxTasks
        /\ now' \in (IF creates THEN ClockAfter(now) ELSE {now})
        /\ tasks' = TasksAfterFile(src, data, tasks, registeredGroups, now, now', nextId)
        /\ nextId' = IF creates THEN nextId + 1 ELSE nextId
        /\ runLogs' = LogsAfterFile(src, data, tasks, runLogs)
        /\ registeredGroups' = GroupsAfterFile(src, data, registeredGroups)
        /\ errorsDir' = IF TaskFileDisposal(data, src, registeredGroups, now) = "errors"
                        THEN errorsDir \cup {QuarantineName(src, TaskFileName)}
                        ELSE errorsDir
        /\ UNCHANGED <<schedQueue, inflight, oncePersisted, files>>
        /\ UNCHANGED <<launcherVars, serviceVars, providerVars, watcherVars, inboundVars>>

----------------------------------------------------------------------------
(* Part II: the scheduler loop *)

\* the next due time after a run: null for once, a future time for cron and interval
NextRunAfter(scheduleType, t) == IF scheduleType = "once" THEN NULL ELSE t + 1

\* a tick: fetch the due rows
SchedulerTick ==
    /\ inflight = NoRun /\ schedQueue = <<>>
    /\ GetDueTasks(tasks, now) # <<>>
    /\ schedQueue' = GetDueTasks(tasks, now)
    /\ UNCHANGED <<tasks, nextId, runLogs, now, registeredGroups, inflight,
                   oncePersisted>>
    /\ UNCHANGED <<launcherVars, msgVars, serviceVars, providerVars, watcherVars, inboundVars>>

\* start the agent run of the next row of the tick
StartRun ==
    /\ inflight = NoRun /\ schedQueue # <<>>
    /\ inflight' = Head(schedQueue)
    /\ schedQueue' = Tail(schedQueue)
    /\ UNCHANGED <<tasks, nextId, runLogs, now, registeredGroups, oncePersisted>>
    /\ UNCHANGED <<launcherVars, msgVars, serviceVars, providerVars, watcherVars, inboundVars>>

\* the agent run returned: persist the row and append the run record
FinishRun(outcome) ==
    /\ inflight # NoRun
    /\ Len(runLogs) < MaxLogs
    /\ LET id == inflight.id
           nextRun == NextRunAfter(inflight.schedule_type, now)
       IN  /\ tasks' = UpdateTaskAfterRun(tasks, id, nextRun)
           /\ runLogs' = LogTaskRun(runLogs, tasks, [task_id |-> id, status |-> outcome])
           /\ oncePersisted' =
                IF nextRun = NULL /\ Exists(tasks, id)
                THEN [oncePersisted EXCEPT ![id] = tasks[id].status]
                ELSE oncePersisted
    /\ inflight' = NoRun
    /\ UNCHANGED <<nextId, now, registeredGroups, schedQueue>>
    /\ UNCHANGED <<launcherVars, msgVars, serviceVars, providerVars, watcherVars, inboundVars>>

\* the process is restarted: the tables survive, the loop's position does not
Restart ==
    /\ inflight # NoRun \/ schedQueue # <<>>
    /\ inflight' = NoRun
    /\ schedQueue' = <<>>
    /\ UNCHANGED <<tasks, nextId, runLogs, now, registeredGroups, oncePersisted>>
    /\ UNCHANGED <<launcherVars, msgVars, serviceVars, providerVars, watcherVars, inboundVars>>

\* time passes
Tick ==
    /\ now < MaxTime
    /\ now' = now + 1
    /\ UNCHANGED <<tasks, nextId, runLogs, registeredGroups, schedQueue, inflight,
                   oncePersisted>>
    /\ UNCHANGED <<launcherVars, msgVars, serviceVars, providerVars, watcherVars, inboundVars>>

\* rows the table may hold when the scheduler starts: what createTask stored for a
\* folder's interval or one-shot task, possibly paused since, possibly already run
SchedRows ==
    {NoTask}
    \cup {[group_folder |-> "alpha", schedule_type |-> "interval", schedule_value |-> "1",
           status |-> st, next_run |-> n, created_at |-> 0] : st \in {"active", "paused"}, n \in 0..MaxTime}
    \cup {[group_folder |-> "alpha", schedule_type |-> "once", schedule_value |-> "T1",
           status |-> st, next_run |-> 1, created_at |-> 0] : st \in {"active", "paused"}}
    \cup {[group_folder |-> "alpha", schedule_type |-> "once", schedule_value |-> "T1",
           status |-> "completed", next_run |-> NULL, created_at |-> 0]}

\* the scheduler over a table that already holds rows
SchedulerInit ==
    /\ tasks \in [1..MaxRows -> SchedRows]
    /\ nextId = MaxRows + 1
    /\ runLogs = <<>>
    /\ now = 0
    /\ registeredGroups = [j \in Jids |-> CASE j = "jm" -> "main"
                                            [] j = "ja" -> "alpha"
                                            [] OTHER -> "none"]
    /\ schedQueue = <<>>
    /\ inflight = NoRun
    /\ oncePersisted = [id \in 1..MaxRows |->
                          IF tasks[id].status = "completed" THEN "active" ELSE "no"]

\* the tasks area of the watcher alone, broken files included
IpcTaskNext ==
    \/ \E src \in Sources, data \in IpcTaskFiles : ProcessTaskFile(src, data)
    \/ Tick

\* the tasks area given schedule_task and register_group files only
RegistryNext ==
    \/ \E src \in Sources, data \in ScheduleFiles \cup RegisterFiles \cup ReRegisterFiles :
           ProcessTaskFile(src, data)
    \/ Tick

SchedulerNext ==
    \/ SchedulerTick
    \/ StartRun
    \/ \E outcome \in {"success", "error"} : FinishRun(outcome)
    \/ Tick

TaskInit ==
    /\ tasks = [id \in TaskIds |-> NoTask]
    /\ nextId = 1
    /\ runLogs = <<>>
    /\ now = 0
    /\ registeredGroups = [j \in Jids |-> CASE j = "jm" -> "main"
                                            [] j = "ja" -> "alpha"
                                            [] OTHER -> "none"]
    /\ schedQueue = <<>>
    /\ inflight = NoRun
    /\ oncePersisted = [id \in TaskIds |-> "no"]

TaskNext ==
    \/ \E src \in Sources, data \in TaskFiles : ProcessTaskFile(src, data)
    \/ SchedulerTick
    \/ StartRun
    \/ \E outcome \in {"success", "error"} : FinishRun(outcome)
    \/ Restart
    \/ Tick

----------------------------------------------------------------------------
(* Part III: messages outbox, PlatformManager and the platforms *)

TELEGRAM_GROUP_FOLDER == "telegram"
TELEGRAM_JID == "telegram@bot"
DISCORD_GROUP_FOLDER == "discord"

\* platforms in registration order
Platforms == <<"whatsapp", "telegram", "discord">>

\* group directories under the ipc directory; files in their messages directories
MsgGroups == {"alpha", "beta"}
FileNames == {"1.json", "2.txt"}
ChatJids == {"1@g.us", "jm", "telegram-1", TELEGRAM_JID, "discord-1", "nobody"}

\* f.endsWith('.json')
IsJsonName(name) == name = "1.json"

BlankMsg == [type |-> "none", chatJid |-> "", hasText |-> FALSE, hasImage |-> FALSE,
             malformed |-> FALSE]

\* file contents the watcher is given
MessageFiles ==
    {[BlankMsg EXCEPT !.type = "message", !.chatJid = j, !.hasText = TRUE] : j \in ChatJids}
    \cup {[BlankMsg EXCEPT !.type = "message", !.chatJid = "1@g.us"],
          [BlankMsg EXCEPT !.type = "message", !.hasText = TRUE]}
    \cup {[BlankMsg EXCEPT !.type = "photo", !.chatJid = j, !.hasImage = TRUE]
             : j \in {"telegram-1", "nobody"}}
    \cup {[BlankMsg EXCEPT !.type = "photo", !.chatJid = "1@g.us"],
          [BlankMsg EXCEPT !.type = "typing", !.chatJid = "1@g.us", !.hasText = TRUE],
          [BlankMsg EXCEPT !.malformed = TRUE]}

\* state of a platform's connection when the send is made
Links == {"unconnected", "up", "down"}

NoFile == [at |-> "absent", data |-> BlankMsg, outcome |-> "none"]

\* a registered jid is a WhatsApp address
IsRegisteredJid(j) == j \in Jids

IsJidForPlatform(p, jid) ==
    CASE p = "whatsapp" -> jid = "1@g.us" \/ IsRegisteredJid(jid)
      [] p = "telegram" -> jid = TELEGRAM_JID \/ jid = "telegram-1"
      [] p = "discord"  -> jid = "discord-1"
      [] OTHER -> FALSE

IsGroupForPlatform(p, rg, groupFolder) ==
    CASE p = "whatsapp" -> \E j \in DOMAIN rg : rg[j] = groupFolder /\ IsJidForPlatform(p, j)
      [] p = "telegram" -> groupFolder = TELEGRAM_GROUP_FOLDER
      [] p = "discord"  -> groupFolder = DISCORD_GROUP_FOLDER
      [] OTHER -> FALSE

\* iteration over this.platforms.values(): the first platform among those at the
\* indices idx, "none" if there is none
FirstPlatform(ps, idx) ==
    IF idx = {} THEN "none"
    ELSE ps[CHOOSE i \in idx : \A j \in idx : i <= j]

GetPlatformForJid(jid) ==
    FirstPlatform(Platforms, {i \in 1..Len(Platforms) : IsJidForPlatform(Platforms[i], jid)})

GetPlatformForGroup(rg, groupFolder) ==
    FirstPlatform(Platforms,
                  {i \in 1..Len(Platforms) : IsGroupForPlatform(Platforms[i], rg, groupFolder)})

\* the platform object's sendMessage: "sent", "dropped" (returns without sending) or "threw"
PlatformSendMessage(p, jid, link, hasDefaultChat) ==
    IF link = "unconnected" THEN "dropped"
    ELSE CASE p = "whatsapp" -> IF link = "up" THEN "sent" ELSE "dropped"
           [] p = "telegram" -> IF jid = TELEGRAM_JID /\ ~hasDefaultChat THEN "dropped"
                                ELSE IF link = "up" THEN "sent" ELSE "threw"
           [] OTHER -> IF link = "up" THEN "sent" ELSE "threw"

PlatformSendPhoto(p, jid, link) ==
    IF link = "unconnected" THEN "dropped"
    ELSE CASE p = "whatsapp" -> IF link = "up" THEN "sent" ELSE "dropped"
           [] OTHER -> IF link = "up" THEN "sent" ELSE "threw"

\* the platform PlatformManager picks: by jid first, by source group otherwise
PickPlatform(rg, jid, sourceGroup) ==
    IF GetPlatformForJid(jid) # "none" THEN GetPlatformForJid(jid)
    ELSE GetPlatformForGroup(rg, sourceGroup)

SendMessage(rg, jid, sourceGroup, link, hasDefaultChat) ==
    LET p == PickPlatform(rg, jid, sourceGroup) IN
    IF p # "none" THEN PlatformSendMessage(p, jid, link, hasDefaultChat) ELSE "dropped"

SendPhoto(rg, jid, sourceGroup, link) ==
    LET p == PickPlatform(rg, jid, sourceGroup) IN
    IF p # "none" THEN PlatformSendPhoto(p, jid, link) ELSE "dropped"

\* what the try block does with one file's contents
HandleMessageFile(data, rg, sourceGroup, link, hasDefaultChat) ==
    IF data.malformed THEN "parse"
    ELSE IF data.type = "message" /\ data.chatJid # "" /\ data.hasText
         THEN SendMessage(rg, data.chatJid, sourceGroup, link, hasDefaultChat)
    ELSE IF data.type = "photo" /\ data.chatJid # "" /\ data.hasImage
         THEN SendPhoto(rg, data.chatJid, sourceGroup, link)
    ELSE "skipped"

\* as Dispose, with a file whose dispatch threw left in place for the next cycle
DisposeRetry(outcome) ==
    CASE outcome = "parse" -> "errors"
      [] outcome = "threw" -> "outbox"
      [] OTHER -> "gone"

\* unlinkSync at the end of the try block, renameSync in the catch block
Dispose(outcome) == IF outcome \in {"parse", "threw"} THEN "errors" ELSE "gone"

MsgInit ==
    /\ files = [slot \in MsgGroups \X FileNames |-> NoFile]
    /\ errorsDir = {}

\* an agent writes a file into its group's messages directory
WriteMessageFile(sourceGroup, file, data) ==
    /\ files[<<sourceGroup, file>>].at = "absent"
    /\ files' = [files EXCEPT ![<<sourceGroup, file>>] = [NoFile EXCEPT !.at = "outbox", !.data = data]]
    /\ UNCHANGED errorsDir
    /\ UNCHANGED <<launcherVars, taskVars, serviceVars, providerVars, watcherVars, inboundVars>>

\* the watcher's handling of one file of a messages directory
ProcessMessageFile(sourceGroup, file, link, hasDefaultChat) ==
    LET slot == <<sourceGroup, file>>
        outcome == HandleMessageFile(files[slot].data, registeredGroups, sourceGroup,
                                     link, hasDefaultChat)
        at == Dispose(outcome)
    IN  /\ files[slot].at = "outbox"
        /\ IsJsonName(file)
        /\ files' = [files EXCEPT ![slot].at = at, ![slot].outcome = outcome]
        /\ errorsDir' = IF at = "errors" THEN errorsDir \cup {QuarantineName(sourceGroup, file)}
                        ELSE errorsDir
        /\ UNCHANGED <<launcherVars, taskVars, serviceVars, providerVars, watcherVars, inboundVars>>

MsgNext ==
    \/ \E g \in MsgGroups, f \in FileNames, d \in MessageFiles : WriteMessageFile(g, f, d)
    \/ \E g \in MsgGroups, f \in FileNames, l \in Links, c \in BOOLEAN :
           ProcessMessageFile(g, f, l, c)

----------------------------------------------------------------------------
(* Part V: ModelProviderManager and ProviderFactory *)

\* ProviderFactory.getAvailableProviders()
AvailableProviders == {"claude", "gemini"}

\* names a store may hold: the known ones, an unknown one, the empty string
StoredNames == AvailableProviders \cup {"gpt", ""}

\* group folders; "constructor" is also a property of Object.prototype
StoreFolders == {"alpha", "constructor"}
ObjectPrototypeKeys == {"constructor"}
ObjectFunction == "function Object() { [native code] }"

\* no own property of that name
Absent == "absent"

NoGroups == [g \in StoreFolders |-> Absent]

\* the store load() returns when there is no usable file
DefaultStore == [global_default |-> "claude", groups |-> NoGroups]

\* contents of model_providers.json
Doc_(gd, groups) == [state |-> "json", global_default |-> gd, groups |-> groups]
MissingFile == [state |-> "missing", global_default |-> "", groups |-> NoGroups]
CorruptFile == [state |-> "corrupt", global_default |-> "", groups |-> NoGroups]

\* files the process may find when it starts
DiskFiles ==
    {MissingFile, CorruptFile,
     Doc_("gemini", NoGroups),
     Doc_("gpt", NoGroups),
     Doc_("", [NoGroups EXCEPT !["alpha"] = "gpt"]),
     Doc_("gemini", [NoGroups EXCEPT !["alpha"] = ""])}

\* load(): JSON.parse, `parsed.global_default || 'claude'`, `parsed.groups || {}`
Load(file) ==
    IF file.state # "json" THEN DefaultStore
    ELSE [global_default |-> IF Truthy(file.global_default) THEN file.global_default
                             ELSE "claude",
          groups |-> file.groups]

\* JSON.stringify(this.store, null, 2)
Serialize(st) == Doc_(st.global_default, st.groups)

\* outcomes of writeFileSync: written, failed leaving the file as it was, failed
\* leaving a partial file
WriteOutcomes == {"ok", "fail", "partial"}

\* save(): the write, and the catch that only logs
Save(st, file, w) ==
    CASE w = "ok" -> Serialize(st)
      [] w = "partial" -> CorruptFile
      [] OTHER -> file

\* this.store.groups[groupFolder]: own property, else Object.prototype's
GroupsGet(groups, g) ==
    IF groups[g] # Absent THEN groups[g]
    ELSE IF g \in ObjectPrototypeKeys THEN ObjectFunction
    ELSE Undefined

\* getProviderForGroup: this.store.groups[groupFolder] || this.store.global_default
GetProviderForGroup(st, g) ==
    IF Truthy(GroupsGet(st.groups, g)) THEN GroupsGet(st.groups, g) ELSE st.global_default

\* ProviderFactory.getProvider: throws on a name that is neither claude nor gemini
GetProvider(name) ==
    IF name \in AvailableProviders THEN [threw |-> FALSE, provider |-> name]
    ELSE [threw |-> TRUE, provider |-> "none"]

\* runContainerAgent: getProviderForGroup, then ProviderFactory.getProvider
ResolveProvider(st, g) == GetProvider(GetProviderForGroup(st, g))

NoExpectation == [g \in StoreFolders |-> "none"]

\* setProviderForGroup
SetProviderForGroup(g, p, w) ==
    /\ store' = [store EXCEPT !.groups[g] = p]
    /\ disk' = Save(store', disk, w)
    /\ expected' = [expected EXCEPT ![g] = p]
    /\ UNCHANGED <<launcherVars, taskVars, msgVars, serviceVars, watcherVars, inboundVars>>

\* clearProviderForGroup: delete this.store.groups[groupFolder]
ClearProviderForGroup(g, w) ==
    /\ store' = [store EXCEPT !.groups[g] = Absent]
    /\ disk' = Save(store', disk, w)
    /\ expected' = [expected EXCEPT ![g] = "cleared"]
    /\ UNCHANGED <<launcherVars, taskVars, msgVars, serviceVars, watcherVars, inboundVars>>

\* setGlobalDefault
SetGlobalDefault(p, w) ==
    /\ store' = [store EXCEPT !.global_default = p]
    /\ disk' = Save(store', disk, w)
    /\ UNCHANGED expected
    /\ UNCHANGED <<launcherVars, taskVars, msgVars, serviceVars, watcherVars, inboundVars>>

\* the process crashes and starts again: new ModelProviderManager()
Reload ==
    /\ store' = Load(disk)
    /\ expected' = NoExpectation
    /\ UNCHANGED disk
    /\ UNCHANGED <<launcherVars, taskVars, msgVars, serviceVars, watcherVars, inboundVars>>

\* no store operation under study
ProviderIdle ==
    /\ store = DefaultStore
    /\ disk = MissingFile
    /\ expected = NoExpectation

ProviderNext ==
    \/ \E g \in StoreFolders, p \in AvailableProviders, w \in WriteOutcomes :
           SetProviderForGroup(g, p, w)
    \/ \E g \in StoreFolders, w \in WriteOutcomes : ClearProviderForGroup(g, w)
    \/ \E p \in AvailableProviders, w \in WriteOutcomes : SetGlobalDefault(p, w)
    \/ Reload

----------------------------------------------------------------------------
(* Claims about the provider store *)

\* the name a store gives a group: its override if it has one, else the global default
EffectiveName(st, g) == IF st.groups[g] # Absent THEN st.groups[g] ELSE st.global_default

\* C12: when the effective provider name of a group, in the in-memory store or in
\* the persisted file the store is loaded from, is not a known backend, resolving
\* the group throws; no other provider is used instead.
C12_UnknownProviderSurfaces ==
    \A g \in StoreFolders :
        /\ EffectiveName(store, g) \notin AvailableProviders
              => ResolveProvider(store, g).threw
        /\ (disk.state = "json" /\ EffectiveName(disk, g) \notin AvailableProviders)
              => ResolveProvider(Load(disk), g).threw

\* C13: after setProviderForGroup(G, P) resolving G gives P, and after
\* clearProviderForGroup(G) resolving G gives the current global default,
\* whatever set, clear and setGlobalDefault operations came in between on other
\* groups.
C13_SetClearRoundTrip ==
    \A g \in StoreFolders :
        /\ expected[g] \in AvailableProviders => GetProviderForGroup(store, g) = expected[g]
        /\ expected[g] = "cleared" => GetProviderForGroup(store, g) = store.global_default

\* C14: every set, clear and setGlobalDefault leaves the file equal to the
\* in-memory store, and a reload resolves every group as before it.
C14_PersistedEqualsMemory ==
    [][IF disk' = disk /\ store' = Load(disk)
       THEN \A g \in StoreFolders :
               GetProviderForGroup(store', g) = GetProviderForGroup(store, g)
       ELSE disk' = Serialize(store')
      ]_vars

----------------------------------------------------------------------------
(* Claims about the task store, the tasks area and the scheduler *)

\* C5: in every reachable state, processing a task file of a non-privileged group
\* that names another group's folder or a task another group owns leaves the task
\* table and the run log as they are; a control file of the privileged group is
\* applied to whatever group owns the task, and its schedule file creates the
\* task for whatever registered group it names.
C5_CrossGroupFilesChangeNothing ==
    /\ \A src \in Sources \ {MAIN_GROUP_FOLDER}, data \in TaskFiles :
          CrossGroup(src, data, tasks)
             => /\ TasksAfterFile(src, data, tasks, registeredGroups, now, now, nextId) = tasks
                /\ LogsAfterFile(src, data, tasks, runLogs) = runLogs
    /\ \A data \in ControlFiles :
          Exists(tasks, data.taskId)
             => LET after == TasksAfterFile(MAIN_GROUP_FOLDER, data, tasks, registeredGroups,
                                            now, now, nextId)
                    logs == LogsAfterFile(MAIN_GROUP_FOLDER, data, tasks, runLogs)
                IN  /\ data.type = "pause_task" => after[data.taskId].status = "paused"
                    /\ data.type = "resume_task" => after[data.taskId].status = "active"
                    /\ data.type = "cancel_task" =>
                          /\ ~Exists(after, data.taskId)
                          /\ \A i \in 1..Len(logs) : logs[i].task_id # data.taskId
    /\ \A data \in ScheduleFiles :
          (/\ data.hasPrompt
           /\ TargetRegistered(registeredGroups, data.groupFolder)
           /\ NextRunFor(data.schedule_type, data.schedule_value, now).ok
           /\ nextId <= MaxTasks)
             => LET after == TasksAfterFile(MAIN_GROUP_FOLDER, data, tasks, registeredGroups,
                                            now, now, nextId)
                IN  /\ Exists(after, nextId)
                    /\ after[nextId].group_folder = data.groupFolder

\* C5 witness: the table holds a task the privileged group owns, with a run-log
\* row, so that a non-privileged group's cancel_task file naming it is a
\* cross-group file; processing that file leaves both as they are.
C5_Witness ==
    \E id \in TaskIds :
        /\ Exists(tasks, id) /\ tasks[id].group_folder = MAIN_GROUP_FOLDER
        /\ \E i \in 1..Len(runLogs) : runLogs[i].task_id = id
        /\ \E src \in Sources \ {MAIN_GROUP_FOLDER} :
             LET data == [BlankFile EXCEPT !.type = "cancel_task", !.taskId = id]
             IN  /\ CrossGroup(src, data, tasks)
                 /\ TasksAfterFile(src, data, tasks, registeredGroups, now, now, nextId) = tasks
                 /\ LogsAfterFile(src, data, tasks, runLogs) = runLogs

\* C6: a row whose next_run is null has status completed.
C6_NullNextRunOnlyWhenCompleted ==
    \A id \in TaskIds :
        (Exists(tasks, id) /\ tasks[id].next_run = NULL) => tasks[id].status = "completed"

\* the status changes the task state machine allows for a row that stays
AllowedStatusChanges ==
    {<<"active", "paused">>, <<"paused", "active">>, <<"active", "completed">>}

\* C20: a row that a step keeps changes its status only from active to paused,
\* from paused to active or from active to completed; so a completed row never
\* becomes active or paused again and a paused row never becomes completed.
C20_OnlyAllowedStatusTransitions ==
    [][\A id \in TaskIds :
         (/\ Exists(tasks, id) /\ Exists(tasks', id)
          /\ tasks'[id].status # tasks[id].status)
            => <<tasks[id].status, tasks'[id].status>> \in AllowedStatusChanges
      ]_vars

\* C7: the step that persists a one-shot run leaves the row with status completed
\* and next_run null, whatever status the row had during the run.
C7_OneShotRunCompletes ==
    [][\A id \in TaskIds :
         (oncePersisted[id] = "no" /\ oncePersisted'[id] # "no")
            => /\ Exists(tasks', id)
               /\ tasks'[id].status = "completed"
               /\ tasks'[id].next_run = NULL
      ]_vars

\* C7 witness: a one-shot row that was paused while its run was in flight is
\* completed with a null next_run.
C7_Witness ==
    \E id \in TaskIds :
        /\ oncePersisted[id] = "paused"
        /\ tasks[id].status = "completed" /\ tasks[id].next_run = NULL

\* C8: a one-shot row whose run has been persisted is not due, is not among the
\* rows of the current tick and is not being run, at any later time and after any
\* later pause, resume or restart.
C8_PersistedOneShotNeverDueAgain ==
    \A id \in TaskIds :
        oncePersisted[id] # "no" =>
            /\ id \notin DueIds(tasks, now)
            /\ \A i \in 1..Len(schedQueue) : schedQueue[i].id # id
            /\ inflight.id # id

\* C8 witness: a one-shot row whose run was persisted has been resumed (status
\* active again) and its original due time has passed.
C8_Witness ==
    \E id \in TaskIds :
        /\ oncePersisted[id] # "no"
        /\ Exists(tasks, id) /\ tasks[id].status = "active"
        /\ tasks[id].schedule_type = "once"
        /\ now >= 1

\* C21: a row with status completed has a null next_run, after every run
\* persistence, pause, resume and create.
C21_CompletedHasNullNextRun ==
    \A id \in TaskIds :
        (Exists(tasks, id) /\ tasks[id].status = "completed") => tasks[id].next_run = NULL

\* C21 witness: a one-shot row that ran while active is completed, and the clock
\* has reached its former due time.
C21_Witness ==
    \E id \in TaskIds :
        /\ oncePersisted[id] = "active"
        /\ Exists(tasks, id) /\ tasks[id].status = "completed"
        /\ tasks[id].next_run = NULL /\ now >= 1

\* the step is the persistence of a run of row id that returned an error
ErrorRunPersisted(id) ==
    /\ inflight.id = id /\ inflight' = NoRun
    /\ Len(runLogs') = Len(runLogs) + 1
    /\ runLogs'[Len(runLogs')] = [task_id |-> id, status |-> "error"]

\* C22: the step that ends the run of a row appends a run-log row for it; when
\* the run returned an error that row has outcome error and next_run is advanced
\* past the clock (or to null for a one-shot); a recurring row keeps the status
\* it had, so an active one stays active after any number of failed runs.
C22_FailedRunStillAdvances ==
    [][\A id \in 1..MaxRows :
         (inflight.id = id /\ inflight' = NoRun /\ Exists(tasks, id))
            => /\ Len(runLogs') = Len(runLogs) + 1
               /\ runLogs'[Len(runLogs')].task_id = id
               /\ ErrorRunPersisted(id) =>
                    /\ tasks'[id].next_run = NULL \/ tasks'[id].next_run > now
                    /\ tasks[id].schedule_type = "interval" =>
                         /\ tasks'[id].status = tasks[id].status
                         /\ tasks'[id].next_run > now
      ]_vars

\* C22 witness: a recurring row is active and scheduled ahead after two failed runs.
C22_Witness ==
    \E id \in 1..MaxRows :
        /\ Len(runLogs) = 2
        /\ \A i \in 1..2 : runLogs[i] = [task_id |-> id, status |-> "error"]
        /\ tasks[id].schedule_type = "interval"
        /\ tasks[id].status = "active" /\ tasks[id].next_run > now

\* the step is the scheduler fetching the due rows of a tick
FetchStep == schedQueue = <<>> /\ schedQueue' # <<>>

\* C23: the rows a tick selects are exactly the rows with status active and a
\* non-null next_run at or before the current time, each once.
C23_TickSelectsExactlyDueActive ==
    [][FetchStep =>
         LET due == {id \in 1..MaxRows :
                        /\ tasks[id] # NoTask
                        /\ tasks[id].status = "active"
                        /\ tasks[id].next_run # NULL
                        /\ tasks[id].next_run <= now}
         IN  /\ {schedQueue'[i].id : i \in 1..Len(schedQueue')} = due
             /\ Len(schedQueue') = Cardinality(due)
      ]_vars

\* C23 witness: a tick has selected a row while a paused row whose next_run has
\* passed was left out.
C23_Witness ==
    /\ schedQueue # <<>>
    /\ \E id \in 1..MaxRows :
         /\ \A i \in 1..Len(schedQueue) : schedQueue[i].id # id
         /\ inflight.id # id
         /\ tasks[id].status = "paused" /\ tasks[id].next_run # NULL
         /\ tasks[id].next_run <= now

\* C24: the rows of a tick are fetched in ascending order of next_run, and runs
\* are started from the front of what was fetched, one after the other.
C24_RunsInAscendingNextRun ==
    [][/\ FetchStep =>
            \A i, j \in 1..Len(schedQueue') :
                i < j => tasks[schedQueue'[i].id].next_run <= tasks[schedQueue'[j].id].next_run
       /\ (inflight = NoRun /\ inflight' # NoRun) =>
            (inflight' = Head(schedQueue) /\ schedQueue' = Tail(schedQueue))
      ]_vars

\* C24 witness: the run of the row with the earlier next_run is in flight while
\* the row with the later next_run, which has the smaller id, still waits.
C24_Witness ==
    /\ inflight # NoRun /\ schedQueue # <<>>
    /\ tasks[inflight.id].next_run < tasks[Head(schedQueue).id].next_run
    /\ Head(schedQueue).id < inflight.id

\* C25: a row created from a schedule_task file with a valid cron expression has
\* a next_run strictly greater than its created_at.
C25_CronNextRunAfterCreation ==
    \A id \in TaskIds :
        (Exists(tasks, id) /\ tasks[id].schedule_type = "cron")
            => (tasks[id].next_run # NULL /\ tasks[id].next_run > tasks[id].created_at)

\* a complete schedule_task file of src for src's own registered folder with an
\* interval that is a positive integer
OwnInterval(src, data) ==
    /\ data.type = "schedule_task"
    /\ data.hasPrompt
    /\ data.groupFolder = src
    /\ TargetRegistered(registeredGroups, src)
    /\ data.schedule_type = "interval"
    /\ ~ParseInt(data.schedule_value).nan
    /\ ParseInt(data.schedule_value).n > 0

\* C26: processing a schedule_task file of a group for its own registered folder
\* with an interval of N, a positive integer, creates exactly one row, owned by
\* the group, active, with next_run = processing time + N; a schedule_task file
\* for a folder no group is registered with creates no row.
C26_OwnFolderIntervalCreatesOneTask ==
    [][\A src \in Sources, data \in IpcTaskFiles :
          ProcessTaskFile(src, data) =>
            /\ OwnInterval(src, data) =>
                  /\ tasks[nextId] = NoTask
                  /\ tasks'[nextId].group_folder = src
                  /\ tasks'[nextId].status = "active"
                  /\ tasks'[nextId].next_run = now + ParseInt(data.schedule_value).n
                  /\ \A id \in TaskIds \ {nextId} : tasks'[id] = tasks[id]
            /\ (data.type = "schedule_task"
                  /\ ~TargetRegistered(registeredGroups, data.groupFolder)) =>
                  tasks' = tasks]_vars

\* the request of a parsed file is carried out
RequestApplied(src, data) ==
    \/ Creates(data, src, registeredGroups, now)
    \/ /\ data.type \in {"pause_task", "resume_task", "cancel_task"}
       /\ Exists(tasks, data.taskId)
       /\ (src = MAIN_GROUP_FOLDER \/ tasks[data.taskId].group_folder = src)
    \/ /\ data.type \in {"register_group", "refresh_groups"}
       /\ src = MAIN_GROUP_FOLDER

\* the request of a parsed file is refused because of who sent it
RejectedUnauthorized(src, data) ==
    \/ /\ data.type = "schedule_task"
       /\ data.hasPrompt
       /\ src # MAIN_GROUP_FOLDER
       /\ data.groupFolder # src
    \/ /\ data.type \in {"pause_task", "resume_task", "cancel_task"}
       /\ Exists(tasks, data.taskId)
       /\ src # MAIN_GROUP_FOLDER
       /\ tasks[data.taskId].group_folder # src
    \/ /\ data.type \in {"register_group", "refresh_groups"}
       /\ src # MAIN_GROUP_FOLDER

\* the request of a parsed file is refused because its recurrence is no cron
\* expression, no positive number of milliseconds, or no date
RejectedInvalidSchedule(src, data) ==
    /\ data.type = "schedule_task"
    /\ data.hasPrompt
    /\ \/ data.schedule_type = "cron" /\ data.schedule_value = "bad"
       \/ data.schedule_type = "interval" /\ data.schedule_value \in {"0", "abc"}
       \/ data.schedule_type = "once" /\ data.schedule_value = "bad"

\* C27: a task file that is read and parsed and whose request is applied, refused
\* as unauthorized, refused for an invalid schedule, or of an unknown type, is
\* deleted and not moved to the errors directory; a task file is moved there
\* only if reading, parsing or applying it throws.
C27_ParsedTaskFilesDeletedNotQuarantined ==
    \A src \in Sources, data \in IpcTaskFiles :
        LET disposal == TaskFileDisposal(data, src, registeredGroups, now)
        IN  /\ (\/ RequestApplied(src, data)
                \/ RejectedUnauthorized(src, data)
                \/ RejectedInvalidSchedule(src, data)
                \/ data.type = "unknown") => disposal = "gone"
            /\ disposal = "errors" => data \in BrokenFiles
            /\ errorsDir \subseteq {QuarantineName(g, TaskFileName) : g \in Sources}

\* a request was applied, and a file that made the handler throw is in errors
C27_Witness ==
    /\ \E id \in TaskIds : Exists(tasks, id)
    /\ QuarantineName("alpha", TaskFileName) \in errorsDir

C29_OnlyMainRegistersGroups ==
    [][/\ \A src \in Sources \ {MAIN_GROUP_FOLDER}, data \in IpcTaskFiles :
             (data.type = "register_group" /\ ProcessTaskFile(src, data))
                => registeredGroups' = registeredGroups
       /\ registeredGroups' # registeredGroups =>
             \E data \in IpcTaskFiles :
                 data.type = "register_group" /\ ProcessTaskFile(MAIN_GROUP_FOLDER, data)]_vars

\* main's file has registered a jid that was not registered
C29_Witness == registeredGroups["jb"] = "beta"

\* C30: every row of the run log names a task that is in the task table, also
\* after a cancel_task file was processed while a run of the task was in flight.
C30_RunLogsReferToExistingTasks ==
    \A i \in 1..Len(runLogs) : Exists(tasks, runLogs[i].task_id)

\* the task whose run is in flight has been cancelled
C30_Witness ==
    /\ inflight # NoRun
    /\ inflight.id < nextId
    /\ ~Exists(tasks, inflight.id)

\* C35: no two registered addresses have the same folder, and the folder of a
\* registered address never changes.
C35_FoldersUniqueAndImmutable ==
    [][/\ \A j1, j2 \in Jids :
             (j1 # j2 /\ registeredGroups'[j1] # "none") =>
                 registeredGroups'[j1] # registeredGroups'[j2]
       /\ \A j \in Jids :
             registeredGroups[j] # "none" => registeredGroups'[j] = registeredGroups[j]]_vars

\* a run of a recurring task is in flight and the task has been paused meanwhile
PausedInFlight ==
    /\ inflight # NoRun
    /\ Exists(tasks, inflight.id)
    /\ tasks[inflight.id].status = "paused"
    /\ tasks[inflight.id].schedule_type \in {"cron", "interval"}

\* C36: when a recurring task was paused while its run was in flight, the row the
\* scheduler persists for that run is paused with next_run advanced past now, and
\* no fetch selects it at any time while it stays paused.
C36_PauseSurvivesRunInFlight ==
    PausedInFlight =>
        LET id == inflight.id
            after == UpdateTaskAfterRun(tasks, id, NextRunAfter(inflight.schedule_type, now))
        IN  /\ after[id].status = "paused"
            /\ after[id].next_run # NULL
            /\ after[id].next_run > now
            /\ \A t \in 0..(MaxTime + 1) : id \notin DueIds(after, t)

\* an interval task was paused while its run was in flight
C36_Witness ==
    /\ PausedInFlight
    /\ tasks[inflight.id].schedule_type = "interval"
    /\ now >= 1

\* C37: a message or photo of a group other than main is sent only to an address
\* that is registered with that group's folder.
C37_DispatchOnlyToOwnAddress ==
    \A slot \in MsgGroups \X FileNames :
        (files[slot].outcome = "sent" /\ slot[1] # MAIN_GROUP_FOLDER) =>
            /\ files[slot].data.chatJid \in DOMAIN registeredGroups
            /\ registeredGroups[files[slot].data.chatJid] = slot[1]

\* C39: the tasks snapshot written for a group other than main holds exactly the tasks
\* whose owning folder is that group, and the snapshot written for main holds every task.
C39_SnapshotHoldsOwnTasksOnly ==
    \A g \in Folders :
        {t.id : t \in RunAgentSnapshot(g, tasks)} =
            {id \in DOMAIN tasks :
                /\ Exists(tasks, id)
                /\ (g = MAIN_GROUP_FOLDER \/ tasks[id].group_folder = g)}

\* a task of another folder is stored: main's snapshot shows it, alpha's does not
C39_Witness ==
    \E id \in DOMAIN tasks :
        /\ Exists(tasks, id)
        /\ tasks[id].group_folder # "alpha"
        /\ id \in {t.id : t \in RunAgentSnapshot(MAIN_GROUP_FOLDER, tasks)}
        /\ RunAgentSnapshot("alpha", tasks) = {}

\* C9: a file of a messages outbox is deleted only if its message was dispatched,
\* and a file whose parsing or dispatch failed (the platform call failing, the
\* platform not connected, no platform accepting the address) is in the errors
\* directory under <group>-<file>.
C9_DeletedOnlyIfDispatched ==
    \A g \in MsgGroups, f \in FileNames :
        LET file == files[<<g, f>>] IN
        /\ file.at = "gone" => file.outcome = "sent"
        /\ file.outcome \in {"parse", "threw", "dropped"}
              => (file.at = "errors" /\ QuarantineName(g, f) \in errorsDir)

\* the claim's invalid recurrence specs
InvalidRecurrence(data) ==
    \/ data.schedule_type = "cron" /\ ~CronParses(data.schedule_value)
    \/ data.schedule_type = "interval"
         /\ (ParseInt(data.schedule_value).nan \/ ParseInt(data.schedule_value).n <= 0)
    \/ data.schedule_type = "once" /\ ParseDate(data.schedule_value).nan
    \/ data.schedule_type \notin {"cron", "interval", "once"}

\* C10: a schedule_task file with an invalid recurrence spec creates no row, and
\* no row is created with a null next_run.
C10_InvalidRecurrenceCreatesNothing ==
    [][/\ \A src \in Sources, data \in TaskFiles :
            (ProcessTaskFile(src, data) /\ data.type = "schedule_task"
             /\ InvalidRecurrence(data)) => tasks' = tasks
       /\ \A id \in TaskIds :
            (~Exists(tasks, id) /\ Exists(tasks', id)) => tasks'[id].next_run # NULL
      ]_vars

----------------------------------------------------------------------------
(* Part VI: the IPC watcher's poll loop (startIpcWatcher, processIpcFiles) *)

\* the group directories one scan of the ipc directory finds
WatchedGroups == <<"main", "alpha">>

\* the kinds of error a cycle can meet
ErrorKinds == {"base", "dir", "parse", "dispatch", "apply", "rename"}

\* what one area of a group is found to hold: no directory or no file, a
\* directory that cannot be read, or one file
AreaFinds == {"nothing", "unreadable", "file"}

\* a call of processIpcFiles at the start of its body
NewCycle == [pc |-> "scan", g |-> 1]

\* setTimeout(processIpcFiles, IPC_POLL_INTERVAL) where a cycle leaves: in the
\* catch block of the scan ("base") and after the loop over the groups ("end")
TimersAtExitNoRearmOnError(t, how) == IF how = "base" THEN t ELSE t + 1

TimersAtExit(t, how) == t + 1

\* as TimersAtEntry, with the next cycle armed when a cycle starts
TimersAtEntryRearm(t) == t

\* the timer that started the cycle is spent; the body arms none at its start
TimersAtEntry(t) == t - 1

\* the position after the area at position pc of group g is done
AfterArea(pc, g) ==
    CASE pc \in {"messages", "dispatching", "moving"} -> [pc |-> "tasks", g |-> g]
      [] g < Len(WatchedGroups) -> [pc |-> "messages", g |-> g + 1]
      [] OTHER -> [pc |-> "end", g |-> g]

\* the sequence without its i-th element
Without(seq, i) == [j \in 1..(Len(seq) - 1) |-> IF j < i THEN seq[j] ELSE seq[j + 1]]

WatcherInit ==
    /\ cycles = <<NewCycle>>
    /\ timers = 0
    /\ seen = {}

\* no watcher under study
WatcherIdle ==
    /\ cycles = <<>>
    /\ timers = 0
    /\ seen = {}

\* a timer fires: processIpcFiles is called
TimerCallback ==
    /\ timers > 0
    /\ Len(cycles) < MaxCycles
    /\ timers' = TimersAtEntry(timers)
    /\ cycles' = Append(cycles, NewCycle)
    /\ UNCHANGED seen
    /\ UNCHANGED <<launcherVars, taskVars, msgVars, serviceVars, providerVars, inboundVars>>

\* readdirSync(ipcBaseDir) and the statSync filter
ScanBase(i, ok) ==
    /\ i \in 1..Len(cycles)
    /\ cycles[i].pc = "scan"
    /\ IF ok
       THEN /\ cycles' = [cycles EXCEPT ![i].pc = "messages"]
            /\ UNCHANGED <<timers, seen>>
       ELSE /\ timers < MaxTimers
            /\ timers' = TimersAtExit(timers, "base")
            /\ cycles' = Without(cycles, i)
            /\ seen' = seen \cup {"base"}
    /\ UNCHANGED <<launcherVars, taskVars, msgVars, serviceVars, providerVars, inboundVars>>

\* existsSync, readdirSync of a messages or tasks directory, JSON.parse of a file
OpenArea(i, finds, parses) ==
    /\ i \in 1..Len(cycles)
    /\ cycles[i].pc \in {"messages", "tasks"}
    /\ LET c == cycles[i]
           sending == IF c.pc = "messages" THEN "dispatching" ELSE "applying"
       IN  CASE finds = "nothing" ->
                  /\ cycles' = [cycles EXCEPT ![i] = AfterArea(c.pc, c.g)]
                  /\ UNCHANGED seen
             [] finds = "unreadable" ->
                  /\ cycles' = [cycles EXCEPT ![i] = AfterArea(c.pc, c.g)]
                  /\ seen' = seen \cup {"dir"}
             [] OTHER ->
                  IF parses
                  THEN /\ cycles' = [cycles EXCEPT ![i].pc = sending]
                       /\ UNCHANGED seen
                  ELSE /\ cycles' = [cycles EXCEPT ![i].pc =
                                       IF c.pc = "messages" THEN "moving" ELSE "taskMoving"]
                       /\ seen' = seen \cup {"parse"}
    /\ UNCHANGED timers
    /\ UNCHANGED <<launcherVars, taskVars, msgVars, serviceVars, providerVars, inboundVars>>

\* the awaited sendMessage / sendPhoto / processTaskIpc settles; unlinkSync
Settle(i, ok) ==
    /\ i \in 1..Len(cycles)
    /\ cycles[i].pc \in {"dispatching", "applying"}
    /\ LET c == cycles[i]
       IN  IF ok
           THEN /\ cycles' = [cycles EXCEPT ![i] = AfterArea(c.pc, c.g)]
                /\ UNCHANGED seen
           ELSE /\ cycles' = [cycles EXCEPT ![i].pc =
                                IF c.pc = "dispatching" THEN "moving" ELSE "taskMoving"]
                /\ seen' = seen \cup {IF c.pc = "dispatching" THEN "dispatch" ELSE "apply"}
    /\ UNCHANGED timers
    /\ UNCHANGED <<launcherVars, taskVars, msgVars, serviceVars, providerVars, inboundVars>>

\* the inner catch block: mkdirSync, renameSync; a throw is caught by the area's
\* outer catch block
Quarantine(i, ok) ==
    /\ i \in 1..Len(cycles)
    /\ cycles[i].pc \in {"moving", "taskMoving"}
    /\ cycles' = [cycles EXCEPT ![i] = AfterArea(cycles[i].pc, cycles[i].g)]
    /\ seen' = IF ok THEN seen ELSE seen \cup {"rename"}
    /\ UNCHANGED timers
    /\ UNCHANGED <<launcherVars, taskVars, msgVars, serviceVars, providerVars, inboundVars>>

\* after the loop over the groups: setTimeout(processIpcFiles, IPC_POLL_INTERVAL)
EndCycle(i) ==
    /\ i \in 1..Len(cycles)
    /\ cycles[i].pc = "end"
    /\ timers < MaxTimers
    /\ timers' = TimersAtExit(timers, "end")
    /\ cycles' = Without(cycles, i)
    /\ UNCHANGED seen
    /\ UNCHANGED <<launcherVars, taskVars, msgVars, serviceVars, providerVars, inboundVars>>

WatcherNext ==
    \/ TimerCallback
    \/ \E i \in 1..MaxCycles, ok \in BOOLEAN : ScanBase(i, ok)
    \/ \E i \in 1..MaxCycles, finds \in AreaFinds, parses \in BOOLEAN :
           OpenArea(i, finds, parses)
    \/ \E i \in 1..MaxCycles, ok \in BOOLEAN : Settle(i, ok)
    \/ \E i \in 1..MaxCycles, ok \in BOOLEAN : Quarantine(i, ok)
    \/ \E i \in 1..MaxCycles : EndCycle(i)

----------------------------------------------------------------------------
(* Claims about the watcher's poll loop *)

\* C31: the watcher's loop never stops: whenever no poll cycle is in progress
\* the next one is armed, whatever errors the cycles before met.
C31_NextCycleAlwaysScheduled ==
    cycles = <<>> => timers >= 1

\* every kind of error has occurred, the cycle has ended and the next is armed
C31_Witness ==
    /\ seen = ErrorKinds
    /\ cycles = <<>>
    /\ timers = 1

\* C38: poll cycles never overlap: at most one cycle is in progress, and a timer
\* for the next cycle is pending only when none is.
C38_CyclesNeverOverlap ==
    /\ Len(cycles) <= 1
    /\ timers >= 1 => cycles = <<>>
    /\ timers <= 1

\* a cycle is waiting for a dispatch of the second group to settle, after an
\* earlier cycle has ended
C38_Witness ==
    /\ Len(cycles) = 1
    /\ cycles[1].pc = "dispatching"
    /\ cycles[1].g = Len(WatchedGroups)
    /\ "base" \in seen
    /\ timers = 0

----------------------------------------------------------------------------
(* Part VII: the platform connectors' inbound handlers, AgentService.runAgent's
   session and the command handler, for one group *)

Connectors == {"whatsapp", "telegram", "discord"}

\* what a user sends
Texts == {"hello", "/clear", "/reset", "/help", "/model claude", "/model gemini"}

NoSession == [by |-> "none", n |-> 0]
NoInvocation == [provider |-> "none", session |-> NoSession]

\* handleCommand(message, groupFolder, isMain)
HandleCommand(text) ==
    CASE text \in {"/model claude", "/model gemini"} ->
           [handled |-> TRUE, clearSession |-> FALSE,
            setProvider |-> IF text = "/model claude" THEN "claude" ELSE "gemini"]
      [] text \in {"/clear", "/reset"} ->
           [handled |-> TRUE, clearSession |-> TRUE, setProvider |-> "none"]
      [] text = "/help" ->
           [handled |-> TRUE, clearSession |-> FALSE, setProvider |-> "none"]
      [] OTHER -> [handled |-> FALSE, clearSession |-> FALSE, setProvider |-> "none"]

\* the connector hands the text to handleCommand: text.startsWith('/model') in the
\* Telegram and Discord handlers, never in processWhatsAppMessage
CallsHandleCommand(p, text) ==
    p \in {"telegram", "discord"} /\ text \in {"/model claude", "/model gemini"}

\* sessions[group.folder] after the connector has dealt with handleCommand's
\* result: the connector replies with result.response and returns
SessionAfterCommand(current, result) == current

\* const sessionId = sessions[group.folder], passed on as request.sessionId
RequestSession(current, p) == current

\* the connector starts a message's handler only after the one before has ended:
\* pollMessages awaits processWhatsAppMessage in its loop; the handlers of
\* bot.on(message('text')) and client.on('messageCreate') start when the event
\* is emitted
Awaited(p) == p = "whatsapp"

InboundInit ==
    /\ platform \in Connectors
    /\ inbound = [m \in 1..MaxMessages |-> "none"]
    /\ startOrder = <<>>
    /\ groupProvider \in {"claude", "gemini"}
    /\ folderSession = NoSession
    /\ lastPassed = NoInvocation
    /\ clearPending = FALSE

\* no group's inbound traffic under study
InboundIdle ==
    /\ platform = "whatsapp"
    /\ inbound = [m \in 1..MaxMessages |-> "none"]
    /\ startOrder = <<>>
    /\ groupProvider = "claude"
    /\ folderSession = NoSession
    /\ lastPassed = NoInvocation
    /\ clearPending = FALSE

\* a message arrives: WhatsApp stores it for the poll loop, Telegram and Discord
\* start its handler, which first awaits the typing indicator
Arrive(m) ==
    /\ inbound[m] = "none"
    /\ \A k \in 1..(m - 1) : inbound[k] # "none"
    /\ inbound' = [inbound EXCEPT ![m] = IF Awaited(platform) THEN "stored" ELSE "handling"]
    /\ UNCHANGED <<platform, startOrder, groupProvider, folderSession, lastPassed,
                   clearPending>>
    /\ UNCHANGED <<launcherVars, taskVars, msgVars, serviceVars, providerVars, watcherVars>>

\* agentService.processMessage(...) reaches await runContainerAgent(...): from the
\* poll loop for the oldest stored message once the one before has ended, from a
\* handler once its typing indicator has settled
StartInvocation(m) ==
    /\ \/ /\ inbound[m] = "stored"
          /\ \A k \in 1..MaxMessages : inbound[k] # "running"
          /\ \A k \in 1..(m - 1) : inbound[k] # "stored"
       \/ inbound[m] = "handling"
    /\ inbound' = [inbound EXCEPT ![m] = "running"]
    /\ startOrder' = Append(startOrder, m)
    /\ UNCHANGED <<platform, groupProvider, folderSession, lastPassed, clearPending>>
    /\ UNCHANGED <<launcherVars, taskVars, msgVars, serviceVars, providerVars, watcherVars>>

\* runContainerAgent settles
FinishInvocation(m) ==
    /\ inbound[m] = "running"
    /\ inbound' = [inbound EXCEPT ![m] = "done"]
    /\ UNCHANGED <<platform, startOrder, groupProvider, folderSession, lastPassed,
                   clearPending>>
    /\ UNCHANGED <<launcherVars, taskVars, msgVars, serviceVars, providerVars, watcherVars>>

InboundNext ==
    \/ \E m \in 1..MaxMessages : Arrive(m)
    \/ \E m \in 1..MaxMessages : StartInvocation(m)
    \/ \E m \in 1..MaxMessages : FinishInvocation(m)

\* what the run returns as newSessionId: nothing, or an id of the provider it ran
NewSessionIds(p) == {NoSession} \cup {[by |-> p, n |-> n] : n \in 1..MaxSessions}

\* one text of the group from its arrival to the end of what it causes: the
\* command handler's reply, or a whole run of the agent
ReceiveText(text, newSessionId) ==
    LET isClear == text \in {"/clear", "/reset"}
    IN  IF CallsHandleCommand(platform, text)
        THEN LET result == HandleCommand(text)
             IN  /\ newSessionId = NoSession
                 /\ groupProvider' = IF result.setProvider # "none" THEN result.setProvider
                                     ELSE groupProvider
                 /\ folderSession' = SessionAfterCommand(folderSession, result)
                 /\ clearPending' = (clearPending \/ isClear)
                 /\ UNCHANGED lastPassed
        ELSE /\ newSessionId \in NewSessionIds(groupProvider)
             /\ lastPassed' = [provider |-> groupProvider,
                               session |-> RequestSession(folderSession, groupProvider)]
             /\ folderSession' = IF newSessionId # NoSession THEN newSessionId
                                 ELSE folderSession
             /\ clearPending' = IF newSessionId # NoSession THEN FALSE
                                ELSE (clearPending \/ isClear)
             /\ UNCHANGED groupProvider

Receive(text, newSessionId) ==
    /\ ReceiveText(text, newSessionId)
    /\ UNCHANGED <<platform, inbound, startOrder>>
    /\ UNCHANGED <<launcherVars, taskVars, msgVars, serviceVars, providerVars, watcherVars>>

SessionNext ==
    \E text \in Texts, sid \in NewSessionIds("claude") \cup NewSessionIds("gemini") :
        Receive(text, sid)

----------------------------------------------------------------------------
(* Claims about inbound messages and sessions *)

\* C32: within the group at most one inbound-message invocation is in flight, and
\* invocations start in the order the messages arrived, on every connector.
C32_OneInvocationInArrivalOrder ==
    /\ Cardinality({m \in 1..MaxMessages : inbound[m] = "running"}) <= 1
    /\ \A i, j \in 1..Len(startOrder) : i < j => startOrder[i] < startOrder[j]

\* C33: the session id an invocation is given is absent or one that the provider
\* the invocation runs under returned earlier.
C33_SessionFromSameProvider ==
    lastPassed.session = NoSession \/ lastPassed.session.by = lastPassed.provider

\* C34: once /clear or /reset has been received, the group has no stored session
\* until a run stores a new one, so the next invocation carries none.
C34_ClearDropsStoredSession ==
    clearPending => folderSession = NoSession

----------------------------------------------------------------------------
(* Specifications *)

\* Part I with the task store at rest
LauncherSpecInit ==
    /\ LauncherInit /\ TaskInit /\ MsgInit /\ ServiceInit /\ ProviderIdle /\ WatcherIdle
    /\ InboundIdle

LauncherSpec == LauncherSpecInit /\ [][LauncherNext]_vars

\* Part II with no invocation under study
TaskSpecInit ==
    /\ LauncherInit
    /\ provider = "launcher" /\ payload = "ok" /\ groupTimeout = 0
    /\ TaskInit
    /\ MsgInit
    /\ ServiceInit
    /\ ProviderIdle
    /\ WatcherIdle
    /\ InboundIdle

TaskSpec == TaskSpecInit /\ [][TaskNext]_vars

\* the scheduler alone, no invocation under study and no task file arriving
SchedulerSpecInit ==
    /\ LauncherInit
    /\ provider = "launcher" /\ payload = "ok" /\ groupTimeout = 0
    /\ SchedulerInit
    /\ MsgInit
    /\ ServiceInit
    /\ ProviderIdle
    /\ WatcherIdle
    /\ InboundIdle

SchedulerSpec == SchedulerSpecInit /\ [][SchedulerNext]_vars

\* the tasks area of the watcher with no scheduler running
IpcTaskSpec == TaskSpecInit /\ [][IpcTaskNext]_vars

\* the registry under register_group files
RegistrySpec == TaskSpecInit /\ [][RegistryNext]_vars

\* Part III with no invocation under study and an empty task table
MsgSpec == TaskSpecInit /\ [][MsgNext]_vars

\* Part V: the store as constructed from whatever file is there
ProviderSpecInit ==
    /\ LauncherInit
    /\ provider = "launcher" /\ payload = "ok" /\ groupTimeout = 0
    /\ TaskInit
    /\ MsgInit
    /\ ServiceInit
    /\ disk \in DiskFiles
    /\ store = Load(disk)
    /\ expected = NoExpectation
    /\ WatcherIdle
    /\ InboundIdle

ProviderSpec == ProviderSpecInit /\ [][ProviderNext]_vars

\* Part VI: the poll loop from the call startIpcWatcher makes
WatcherSpecInit ==
    /\ LauncherInit
    /\ provider = "launcher" /\ payload = "ok" /\ groupTimeout = 0
    /\ TaskInit
    /\ MsgInit
    /\ ServiceInit
    /\ ProviderIdle
    /\ WatcherInit
    /\ InboundIdle

WatcherSpec == WatcherSpecInit /\ [][WatcherNext]_vars

\* Part VII: a group's messages on one connector
InboundSpecInit ==
    /\ LauncherInit
    /\ provider = "launcher" /\ payload = "ok" /\ groupTimeout = 0
    /\ TaskInit
    /\ MsgInit
    /\ ServiceInit
    /\ ProviderIdle
    /\ WatcherIdle
    /\ InboundInit

InboundSpec == InboundSpecInit /\ [][InboundNext]_vars

\* Part VII: a group's texts, one at a time, and its stored session
SessionSpec == InboundSpecInit /\ [][SessionNext]_vars

====
